---- MODULE Spec2Model ----
(***************************************************************************)
(* EasyFileSorter (src/EasyFileSorter.py): scan_directory collects the     *)
(* files of a source tree, transfer_files moves or copies each of them     *)
(* into destination_dir/YYYY/YYYY-MM/YYYY-MM-DD.                            *)
(*                                                                         *)
(* File names and path components are sequences of one-character strings, *)
(* a path is a sequence of components.  A file is a record                 *)
(* [data, mtime, tags]: its content (named by the path it was created at), *)
(* its modification time in seconds since the epoch, and the EXIF tags     *)
(* exifread finds in it (tag name -> printable value).                     *)
(*                                                                         *)
(* The program is Python 2 (the ValueError handler reads e.message), and   *)
(* source and destination trees are disjoint.  The local time zone is UTC.  *)
(***************************************************************************)
EXTENDS Integers, Sequences, FiniteSets, TLC

\* ------------------------------------------------------------------ bounds
\* at most this many files exist below source_dir
MaxFiles == 2
\* the source tree nests this many directories below source_dir
MaxDepth == 1
\* candidate names a, a_1, a_1_1, ... already present in the dated directory
MaxPre == 2

\* ------------------------------------------------------- strings and paths
Digits == <<"0", "1", "2", "3", "4", "5", "6", "7", "8", "9">>

RECURSIVE Str(_)
\* str(n) / "{0}".format(n) for n >= 0: the decimal numeral, no padding
Str(n) == IF n < 10 THEN <<Digits[n + 1]>>
          ELSE Append(Str(n \div 10), Digits[(n % 10) + 1])

\* "{1:02d}" with padding forgotten
Fmt02dUnpadded(n) == Str(n)

\* "{1:02d}".format(n) for n >= 0: at least two digits, zero-padded
Fmt02d(n) == IF n < 10 THEN <<"0">> \o Str(n) ELSE Str(n)

\* os.path.join(a, b) for a relative component b
Join(path, component) == Append(path, component)

\* position of the last "." of p, 0 when there is none (str.rfind)
RFindDot(p) ==
    LET dots == {k \in 1..Len(p) : p[k] = "."}
    IN  IF dots = {} THEN 0 ELSE CHOOSE k \in dots : \A j \in dots : j <= k

\* splitext that takes a leading dot for the extension separator
SplitextNaive(p) ==
    LET dotIndex == RFindDot(p)
    IN  IF dotIndex > 0
        THEN <<SubSeq(p, 1, dotIndex - 1), SubSeq(p, dotIndex, Len(p))>>
        ELSE <<p, <<>>>>

\* os.path.splitext(p) of a name without separators: the extension starts at
\* the last dot, unless only dots precede that dot
Splitext(p) ==
    LET dotIndex == RFindDot(p)
    IN  IF dotIndex > 0 /\ \E k \in 1..(dotIndex - 1) : p[k] # "."
        THEN <<SubSeq(p, 1, dotIndex - 1), SubSeq(p, dotIndex, Len(p))>>
        ELSE <<p, <<>>>>

\* ------------------------------------------------------------------- dates
IsLeap(y) == (y % 4 = 0 /\ y % 100 # 0) \/ y % 400 = 0

DaysInMonth(y, m) ==
    IF m = 2 THEN (IF IsLeap(y) THEN 29 ELSE 28)
    ELSE IF m \in {4, 6, 9, 11} THEN 30 ELSE 31

\* datetime.fromtimestamp(ts) for ts >= 0, date part (proleptic Gregorian)
FromTimestamp(ts) ==
    LET z    == (ts \div 86400) + 719468
        era  == z \div 146097
        doe  == z - era * 146097
        yoe  == (doe - doe \div 1460 + doe \div 36524 - doe \div 146096) \div 365
        doy  == doe - (365 * yoe + yoe \div 4 - yoe \div 100)
        mp   == (5 * doy + 2) \div 153
        d    == doy - (153 * mp + 2) \div 5 + 1
        m    == IF mp < 10 THEN mp + 3 ELSE mp - 9
        y    == yoe + era * 400 + (IF m <= 2 THEN 1 ELSE 0)
    IN  [year |-> y, month |-> m, day |-> d]

IsDigit(c) == \E k \in 1..10 : Digits[k] = c

DigitVal(c) == (CHOOSE k \in 1..10 : Digits[k] = c) - 1

RECURSIVE Num(_)
\* the value of a sequence of digits
Num(s) == IF s = <<>> THEN 0
          ELSE 10 * Num(SubSeq(s, 1, Len(s) - 1)) + DigitVal(s[Len(s)])

ValueError == [year |-> 0, month |-> 0, day |-> 0]

\* datetime.strptime(s, '%Y:%m:%d %H:%M:%S') for the tag values of FileKinds
\* and str(None):
\* the fixed-width form parses when every field is in range, anything else is
\* a ValueError
Strptime(s) ==
    IF /\ Len(s) = 19
       /\ s[5] = ":" /\ s[8] = ":" /\ s[11] = " " /\ s[14] = ":" /\ s[17] = ":"
       /\ \A k \in (1..19) \ {5, 8, 11, 14, 17} : IsDigit(s[k])
    THEN LET y  == Num(SubSeq(s, 1, 4))
             m  == Num(SubSeq(s, 6, 7))
             d  == Num(SubSeq(s, 9, 10))
             hh == Num(SubSeq(s, 12, 13))
             mm == Num(SubSeq(s, 15, 16))
             ss == Num(SubSeq(s, 18, 19))
         IN  IF /\ y >= 1 /\ m \in 1..12 /\ d >= 1 /\ d <= DaysInMonth(y, m)
                /\ hh <= 23 /\ mm <= 59 /\ ss <= 59
             THEN [year |-> y, month |-> m, day |-> d]
             ELSE ValueError
    ELSE ValueError

\* ------------------------------------------------------------ configuration
\* self._source_dir
source_dir == << <<"s", "r", "c">> >>

\* self._destination_dir
destination_dir == << <<"d", "s", "t">> >>

\* the directory nested depth levels below source_dir
DirAt(depth) == source_dir \o [k \in 1..depth |-> <<"n">>]

PhotoName == <<"a", ".", "j">>

HiddenName == <<".", "a">>

\* file names that may occur in a directory of the source tree
NamesAt(depth) == {PhotoName, HiddenName}

\* the paths at which a source file may exist
SourceTree == UNION {{Join(DirAt(d), n) : n \in NamesAt(d)} : d \in 0..MaxDepth}

NoTags == [t \in {} |-> <<>>]

DateMarch == <<"2", "0", "2", "1", ":", "0", "3", ":", "0", "7", " ",
               "1", "0", ":", "0", "0", ":", "0", "0">>

DateDecember == <<"1", "9", "9", "9", ":", "1", "2", ":", "3", "1", " ",
                  "2", "3", ":", "0", "0", ":", "0", "0">>

DateUnset == <<"0", "0", "0", "0", ":", "0", "0", ":", "0", "0", " ",
               "0", "0", ":", "0", "0", ":", "0", "0">>

\* the first tag the code looks at is unparseable, a later one is a date
BadTags == ("EXIF DateTimeOriginal" :> DateUnset) @@ ("Image DateTime" :> DateMarch)

\* the second tag the code looks at is a date, the last one another date
GoodTags == ("Image DateTimeOriginal" :> DateMarch)
            @@ ("EXIF DateTimeDigitized" :> DateDecember)

\* modification time and EXIF tags a source file may have:
\* 1615111200 is 2021-03-07 10:00:00, 946681200 is 1999-12-31 23:00:00
FileKinds == {[mtime |-> 1615111200, tags |-> NoTags],
              [mtime |-> 946681200, tags |-> BadTags],
              [mtime |-> 946681200, tags |-> GoodTags]}

\* --------------------------------------------------------------- path plan
\* new_path of transfer_files: root/Y/Y-MM/Y-MM-DD
PlanPath(root, date) ==
    LET year == Str(date.year)
    IN  Join(Join(Join(root, year),
                  year \o <<"-">> \o Fmt02d(date.month)),
             year \o <<"-">> \o Fmt02d(date.month) \o <<"-">> \o Fmt02d(date.day))

\* the k "_1" markers
RECURSIVE Markers(_)
Markers(k) == IF k = 0 THEN <<>> ELSE <<"_", "1">> \o Markers(k - 1)

\* a_1..._1.j with k markers
Marked(k) == <<"a">> \o Markers(k) \o <<".", "j">>

\* the dated directory files of 2021-03-07 go to
MarchDir == PlanPath(destination_dir, FromTimestamp(1615111200))

\* a path and the directories above it
Prefixes(path) == {SubSeq(path, 1, k) : k \in 1..Len(path)}

\* ------------------------------------------------------------------- state
VARIABLES
    srcFiles,               \* the source tree: path -> file
    dstFiles,               \* the files of the destination tree: path -> file
    dstDirs,                \* the directories of the destination tree
    recursive,              \* scan_directory's argument
    remove_original_files,  \* self._remove_original_files
    overwrite,              \* self._overwrite
    use_exif,               \* self._use_exif
    found_files,            \* self._found_files
    pc,                     \* where the run is
    i,                      \* index in found_files of the record f of the loop
    modification_date,      \* transfer_files' local
    new_path,               \* transfer_files' local
    filename,               \* _get_new_filename's argument
    checks,                 \* os.path.exists calls of _get_new_filename for f
    error,                  \* the exception that ended transfer_files
    transferred             \* the moves and copies that succeeded, in order

vars == <<srcFiles, dstFiles, dstDirs, recursive, remove_original_files,
          overwrite, use_exif, found_files, pc, i, modification_date,
          new_path, filename, checks, error, transferred>>

NoDate == [year |-> 0, month |-> 0, day |-> 0]

\* the destination before the run: nothing, the year directory alone, or the
\* dated directory of 2021-03-07 holding some of a.j, a_1.j, ...
InitialDestinations ==
    {[dirs |-> {}, names |-> {}],
     [dirs |-> Prefixes(SubSeq(MarchDir, 1, 2)), names |-> {}]}
    \cup {[dirs |-> Prefixes(MarchDir), names |-> {Marked(k) : k \in ks}] :
            ks \in SUBSET (0..(MaxPre - 1))}

Init ==
    /\ \E present \in SUBSET SourceTree :
         /\ Cardinality(present) \in 1..MaxFiles
         /\ \E kind \in [present -> FileKinds] :
              srcFiles = [p \in present |->
                            [data |-> p, mtime |-> kind[p].mtime,
                             tags |-> kind[p].tags]]
    /\ \E d \in InitialDestinations :
         /\ dstDirs = d.dirs
         /\ dstFiles = [p \in {Join(MarchDir, n) : n \in d.names} |->
                          [data |-> p, mtime |-> 946681200, tags |-> NoTags]]
    /\ recursive \in BOOLEAN
    /\ remove_original_files \in BOOLEAN
    /\ overwrite \in BOOLEAN
    /\ use_exif \in BOOLEAN
    /\ found_files = <<>>
    /\ pc = "scan"
    /\ i = 0
    /\ modification_date = NoDate
    /\ new_path = <<>>
    /\ filename = <<>>
    /\ checks = 0
    /\ error = "none"
    /\ transferred = <<>>

\* ------------------------------------------------------------------- scan
\* the orders in which os.listdir may give the names of a set
Listings(names) ==
    {s \in [1..Cardinality(names) -> names] :
        \A j, k \in 1..Cardinality(names) : s[j] = s[k] => j = k}

\* the names of the files directly inside the source directory at a depth
FilesAt(depth) == {n \in NamesAt(depth) : Join(DirAt(depth), n) \in DOMAIN srcFiles}

RECURSIVE Walk(_, _)
\* found_files as the loop over os.walk builds it from a depth on: the tuples
\* (root, file_name) of that directory, then, unless the loop breaks, those of
\* the directories below
Walk(depth, descend) ==
    {[k \in 1..Len(l) |-> <<DirAt(depth), l[k]>>] \o below :
        l \in Listings(FilesAt(depth)),
        below \in IF descend /\ depth < MaxDepth
                  THEN Walk(depth + 1, descend) ELSE {<<>>}}

\* the loop of scan_directory with the break left out
ScanAlwaysDescends(recurse) == Walk(0, TRUE)

\* the values scan_directory(recursive) may leave in self._found_files
ScanResults(recurse) == Walk(0, recurse)

\* where the loop of transfer_files goes after record n of len
AfterRecord(n, len) == IF n < len THEN "loop" ELSE "done"

scan_directory ==
    /\ pc = "scan"
    /\ \E found \in ScanResults(recursive) :
         /\ found_files' = found
         /\ pc' = AfterRecord(0, Len(found))
    /\ i' = 1
    /\ UNCHANGED <<srcFiles, dstFiles, dstDirs, recursive, remove_original_files,
                   overwrite, use_exif, modification_date, new_path, filename,
                   checks, error, transferred>>

\* ------------------------------------------------------------ date of file
TagOrder == <<"EXIF DateTimeOriginal", "Image DateTimeOriginal",
              "Image DateTime", "EXIF DateTimeDigitized">>

\* str(None)
NoneStr == <<"N", "o", "n", "e">>

\* the tag lookup that goes on to the next tag when one does not parse
ExifDateFirstParseable(tags) ==
    LET good == {k \in 1..4 : /\ TagOrder[k] \in DOMAIN tags
                              /\ Strptime(tags[TagOrder[k]]) # ValueError}
    IN  IF good = {} THEN NoneStr
        ELSE tags[TagOrder[CHOOSE k \in good : \A j \in good : k <= j]]

\* str(exif_date): the printable value of the first of the four tags that is
\* present, "None" when none is
ExifDate(tags) ==
    IF "EXIF DateTimeOriginal" \in DOMAIN tags THEN tags["EXIF DateTimeOriginal"]
    ELSE IF "Image DateTimeOriginal" \in DOMAIN tags THEN tags["Image DateTimeOriginal"]
    ELSE IF "Image DateTime" \in DOMAIN tags THEN tags["Image DateTime"]
    ELSE IF "EXIF DateTimeDigitized" \in DOMAIN tags THEN tags["EXIF DateTimeDigitized"]
    ELSE NoneStr

RECURSIVE GetDateFromFile(_, _)
\* _get_date_from_file: [raised, date]; open() and os.path.getmtime() raise
\* for a file that is not there
GetDateFromFile(path_to_file, exif) ==
    IF exif
    THEN IF path_to_file \notin DOMAIN srcFiles
         THEN [raised |-> "IOError", date |-> NoDate]
         ELSE LET parsed == Strptime(ExifDate(srcFiles[path_to_file].tags))
              IN  IF parsed # ValueError
                  THEN [raised |-> "none", date |-> parsed]
                  ELSE GetDateFromFile(path_to_file, FALSE)
    ELSE IF path_to_file \notin DOMAIN srcFiles
         THEN [raised |-> "OSError", date |-> NoDate]
         ELSE [raised |-> "none",
               date |-> FromTimestamp(srcFiles[path_to_file].mtime)]

\* the record f of the loop, and original_file
f == found_files[i]

original_file == Join(f[1], f[2])

\* lines 65-69: f's date, or the exception leaves transfer_files
ResolveDate ==
    /\ pc = "loop"
    /\ LET r == GetDateFromFile(original_file, use_exif)
       IN  IF r.raised = "none"
           THEN /\ modification_date' = r.date
                /\ pc' = "mkdir"
                /\ error' = error
           ELSE /\ modification_date' = modification_date
                /\ pc' = "raised"
                /\ error' = r.raised
    /\ UNCHANGED <<srcFiles, dstFiles, dstDirs, recursive, remove_original_files,
                   overwrite, use_exif, found_files, i, new_path, filename,
                   checks, transferred>>

\* --------------------------------------------------------------- directory
\* os.path.exists in the destination tree
Exists(path) == path \in DOMAIN dstFiles \/ path \in dstDirs

\* os.makedirs called whether or not the directory is there
AlwaysMakedirs(path) == TRUE

\* line 73: if not os.path.isdir(new_path)
NeedsMakedirs(path) == path \notin dstDirs

\* lines 70-75: plan new_path and make the directory; os.makedirs raises
\* OSError when the leaf is already there
MakeDirectory ==
    /\ pc = "mkdir"
    /\ LET planned == PlanPath(destination_dir, modification_date)
       IN  /\ new_path' = planned
           /\ IF NeedsMakedirs(planned)
              THEN IF Exists(planned)
                   THEN /\ pc' = "raised"
                        /\ error' = "OSError"
                        /\ UNCHANGED dstDirs
                   ELSE /\ dstDirs' = dstDirs \cup Prefixes(planned)
                        /\ pc' = IF overwrite THEN "xfer" ELSE "name"
                        /\ error' = error
              ELSE /\ pc' = IF overwrite THEN "xfer" ELSE "name"
                   /\ error' = error
                   /\ UNCHANGED dstDirs
    /\ filename' = f[2]
    /\ checks' = 0
    /\ UNCHANGED <<srcFiles, dstFiles, recursive, remove_original_files,
                   overwrite, use_exif, found_files, i, modification_date,
                   transferred>>

\* ---------------------------------------------------------------- new name
\* the name given back as it came
NewFilenameSame(name) == name

\* line 130: splitext(filename)[0] + "_1" + splitext(filename)[1]
NewFilename(name) == Splitext(name)[1] \o <<"_", "1">> \o Splitext(name)[2]

\* a rename that is not checked again
CollidesOnce(path) == Exists(path) /\ filename = f[2]

\* line 129: os.path.exists(os.path.join(destination_directory, filename))
Collides(path) == Exists(path)

\* lines 76-77, 121-133: one call of _get_new_filename, the outermost or a
\* recursive one; new_path is still the dated directory
GetNewFilename ==
    /\ pc = "name"
    /\ checks' = checks + 1
    /\ IF Collides(Join(new_path, filename))
       THEN /\ filename' = NewFilename(filename)
            /\ UNCHANGED <<new_path, pc>>
       ELSE /\ new_path' = Join(new_path, filename)
            /\ pc' = "xfer"
            /\ UNCHANGED filename
    /\ UNCHANGED <<srcFiles, dstFiles, dstDirs, recursive, remove_original_files,
                   overwrite, use_exif, found_files, i, modification_date,
                   error, transferred>>

\* ---------------------------------------------------------------- transfer
Basename(path) == path[Len(path)]

\* files with path holding file
Write(files, path, file) ==
    [p \in DOMAIN files \cup {path} |-> IF p = path THEN file ELSE files[p]]

\* files without path
Remove(files, path) == [p \in DOMAIN files \ {path} |-> files[p]]

\* shutil.copy2(src, dst): into dst when dst is a directory; the content goes
\* to the target, replacing what is there, then copystat copies the times
ShutilCopy2(src, dst) ==
    LET real_dst == IF dst \in dstDirs THEN Join(dst, Basename(src)) ELSE dst
    IN  IF src \notin DOMAIN srcFiles
        THEN [raised |-> "IOError", src |-> srcFiles, dst |-> dstFiles,
              target |-> real_dst]
        ELSE [raised |-> "none", src |-> srcFiles,
              dst |-> Write(dstFiles, real_dst, srcFiles[src]),
              target |-> real_dst]

\* a move that leaves the original where it was
ShutilMoveKeeps(src, dst) == ShutilCopy2(src, dst)

\* shutil.move(src, dst): into dst when dst is a directory, and then an
\* existing target is an Error; otherwise os.rename, and when that fails
\* copy2 and os.unlink
ShutilMove(src, dst) ==
    LET real_dst == IF dst \in dstDirs THEN Join(dst, Basename(src)) ELSE dst
    IN  IF dst \in dstDirs /\ Exists(real_dst)
        THEN [raised |-> "Error", src |-> srcFiles, dst |-> dstFiles,
              target |-> real_dst]
        ELSE IF src \notin DOMAIN srcFiles
        THEN [raised |-> "IOError", src |-> srcFiles, dst |-> dstFiles,
              target |-> real_dst]
        ELSE [raised |-> "none", src |-> Remove(srcFiles, src),
              dst |-> Write(dstFiles, real_dst, srcFiles[src]),
              target |-> real_dst]

\* lines 78-83: move or copy original_file to new_path, then the next record
Transfer ==
    /\ pc = "xfer"
    /\ LET r == IF remove_original_files
                THEN ShutilMove(original_file, new_path)
                ELSE ShutilCopy2(original_file, new_path)
       IN  IF r.raised = "none"
           THEN /\ srcFiles' = r.src
                /\ dstFiles' = r.dst
                /\ transferred' = Append(transferred,
                                         [src |-> original_file, dst |-> r.target])
                /\ i' = i + 1
                /\ pc' = AfterRecord(i, Len(found_files))
                /\ error' = error
           ELSE /\ pc' = "raised"
                /\ error' = r.raised
                /\ UNCHANGED <<srcFiles, dstFiles, transferred, i>>
    /\ UNCHANGED <<dstDirs, recursive, remove_original_files, overwrite,
                   use_exif, found_files, modification_date, new_path,
                   filename, checks>>

\* ------------------------------------------------------------- environment
\* somebody else removes the file the run is about to read: before its date
\* is read, or before it is moved or copied
ExternalRemove ==
    /\ pc \in {"loop", "xfer"}
    /\ original_file \in DOMAIN srcFiles
    /\ srcFiles' = Remove(srcFiles, original_file)
    /\ UNCHANGED <<dstFiles, dstDirs, recursive, remove_original_files,
                   overwrite, use_exif, found_files, pc, i, modification_date,
                   new_path, filename, checks, error, transferred>>

Next ==
    \/ scan_directory
    \/ ResolveDate
    \/ MakeDirectory
    \/ GetNewFilename
    \/ Transfer
    \/ ExternalRemove

Spec == Init /\ [][Next]_vars

\* ------------------------------------------------------------------ claims
\* the directory a path lies in
Front(path) == SubSeq(path, 1, Len(path) - 1)

\* the paths of the records of a found-files list
Originals(found) == {Join(found[k][1], found[k][2]) : k \in 1..Len(found)}

\* the files of the destination that lie directly in a directory
FilesIn(dir) == {p \in DOMAIN dstFiles : Front(p) = dir}

\* the dated directory of the record f, once it is planned
PlannedDir == IF pc = "xfer" /\ ~overwrite THEN Front(new_path) ELSE new_path

\* name with k "_1" markers between its stem and its extension
WithMarkers(name, k) ==
    IF name = PhotoName THEN Marked(k) ELSE HiddenName \o Markers(k)

\* no date tag, or the first one present in the code's order does not parse
NoEmbeddedDate(tags) ==
    LET present == {k \in 1..4 : TagOrder[k] \in DOMAIN tags}
    IN  \/ present = {}
        \/ Strptime(tags[TagOrder[CHOOSE k \in present :
                                    \A j \in present : k <= j]]) = ValueError

March7 == << <<"d", "s", "t">>, <<"2", "0", "2", "1">>,
             <<"2", "0", "2", "1", "-", "0", "3">>,
             <<"2", "0", "2", "1", "-", "0", "3", "-", "0", "7">> >>

\* C1: when transfer_files has ended, by its last line or by an exception,
\* every record of found_files was attempted: none after a failing record
\* is left out.
C1_EveryRecordAttempted ==
    pc \in {"done", "raised"} => i >= Len(found_files)

\* C2: with overwrite set, moving or copying a file that is there into a dated
\* directory that holds a file of its name succeeds, and the path then holds
\* the transferred file.
C2_OverwriteReplaces ==
    [][(/\ pc = "xfer" /\ pc' # pc /\ overwrite
        /\ original_file \in DOMAIN srcFiles
        /\ Join(new_path, f[2]) \in DOMAIN dstFiles)
       => (/\ pc' # "raised"
           /\ Join(new_path, f[2]) \in DOMAIN dstFiles'
           /\ dstFiles'[Join(new_path, f[2])] = srcFiles[original_file])]_vars

\* C3: with overwrite not set, the path a move or copy writes to does not
\* exist when it is written, and no step of the run removes or changes a file
\* of the destination.
C3_NeverReplaces ==
    [][~overwrite =>
         /\ (pc = "xfer" /\ pc' # pc) => ~Exists(new_path)
         /\ \A p \in DOMAIN dstFiles :
               p \in DOMAIN dstFiles' /\ dstFiles'[p] = dstFiles[p]]_vars

\* two records of one name went to two paths of one dated directory that
\* already held a file of that name, which is still as it was
C3_Witness ==
    /\ ~overwrite
    /\ Len(transferred) = 2
    /\ Basename(transferred[1].src) = Basename(transferred[2].src)
    /\ Front(transferred[1].dst) = Front(transferred[2].dst)
    /\ transferred[1].dst # transferred[2].dst
    /\ LET old == Join(Front(transferred[1].dst), Basename(transferred[1].src))
       IN  old \in DOMAIN dstFiles /\ dstFiles[old].data = old

\* C4: the path _get_new_filename returns is the dated directory joined with
\* stem + k markers "_1" + extension for the smallest k >= 0 for which that
\* does not exist: a.j, then a_1.j, then a_1_1.j.
C4_LiteralAppend ==
    (pc = "xfer" /\ ~overwrite) =>
        \E k \in 0..Cardinality(DOMAIN dstFiles) :
            /\ new_path = Join(PlannedDir, WithMarkers(f[2], k))
            /\ ~Exists(new_path)
            /\ \A j \in 0..(k - 1) : Exists(Join(PlannedDir, WithMarkers(f[2], j)))

\* a.j was there, a first a.j went to a_1.j, a second one is about to go to
\* a_1_1.j
C4_Witness ==
    /\ pc = "xfer" /\ ~overwrite
    /\ new_path = Join(MarchDir, Marked(2))
    /\ Len(transferred) = 1
    /\ transferred[1].dst = Join(MarchDir, Marked(1))
    /\ dstFiles[Join(MarchDir, Marked(0))].data = Join(MarchDir, Marked(0))

C6_MoveVsCopy ==
    [][(pc = "xfer" /\ pc' \notin {"xfer", "raised"}) =>
         LET target == IF overwrite THEN Join(new_path, f[2]) ELSE new_path
         IN  /\ target \in DOMAIN dstFiles'
             /\ dstFiles'[target] = srcFiles[original_file]
             /\ remove_original_files => original_file \notin DOMAIN srcFiles'
             /\ ~remove_original_files =>
                  /\ original_file \in DOMAIN srcFiles'
                  /\ srcFiles'[original_file] = srcFiles[original_file]]_vars

\* a file was moved: it is at the destination and no longer at the source
C6_Witness ==
    /\ remove_original_files
    /\ Len(transferred) >= 1
    /\ transferred[1].src \notin DOMAIN srcFiles
    /\ dstFiles[transferred[1].dst].data = transferred[1].src

\* C7: scan_directory finds exactly the files directly inside source_dir when
\* recursive is not set and exactly the files at every depth when it is; only
\* found files are transferred, and a run that reaches its last line has
\* transferred every found file.
C7_ScanBoundary ==
    /\ [][pc = "scan" =>
            LET wanted == IF recursive THEN DOMAIN srcFiles
                          ELSE {p \in DOMAIN srcFiles : Front(p) = source_dir}
            IN  /\ Originals(found_files') = wanted
                /\ Len(found_files') = Cardinality(wanted)]_vars
    /\ [](\A k \in 1..Len(transferred) :
            /\ transferred[k].src \in Originals(found_files)
            /\ ~recursive => Front(transferred[k].src) = source_dir)
    /\ [](pc = "done" => Len(transferred) = Len(found_files))

\* a run without recursion ended, it transferred a file, and a file in a
\* nested directory is still where it was
C7_Witness ==
    /\ ~recursive /\ pc = "done"
    /\ Len(transferred) >= 1
    /\ \E p \in DOMAIN srcFiles : Front(p) # source_dir

\* C8: the dated directory is destination_dir/Y/Y-MM/Y-MM-DD with Y the
\* year's numeral and MM, DD two digits each that read as the month and the
\* day; 2021-03-07 gives dst/2021/2021-03/2021-03-07.
C8_DatePartition ==
    pc \in {"name", "xfer"} =>
        LET dir  == PlannedDir
            n    == Len(destination_dir)
            date == modification_date
            y    == dir[n + 1]
            ym   == dir[n + 2]
            ymd  == dir[n + 3]
            mm   == SubSeq(ym, Len(y) + 2, Len(ym))
            dd   == SubSeq(ymd, Len(ym) + 2, Len(ymd))
        IN  /\ Len(dir) = n + 3
            /\ SubSeq(dir, 1, n) = destination_dir
            /\ \A k \in 1..Len(y) : IsDigit(y[k])
            /\ Num(y) = date.year
            /\ ym = y \o <<"-">> \o mm
            /\ Len(mm) = 2 /\ IsDigit(mm[1]) /\ IsDigit(mm[2])
            /\ Num(mm) = date.month
            /\ ymd = ym \o <<"-">> \o dd
            /\ Len(dd) = 2 /\ IsDigit(dd[1]) /\ IsDigit(dd[2])
            /\ Num(dd) = date.day
            /\ date = [year |-> 2021, month |-> 3, day |-> 7] => dir = March7

\* a file of 2021-03-07 is about to go into dst/2021/2021-03/2021-03-07
C8_Witness ==
    /\ pc = "xfer" /\ overwrite
    /\ modification_date = [year |-> 2021, month |-> 3, day |-> 7]
    /\ new_path = March7

\* C9: _get_new_filename ends: every recursive call checks a name two
\* characters longer than the call before, and it makes at most one check more
\* than there are files in the dated directory.
C9_ChecksBounded ==
    /\ pc = "name" =>
          /\ Len(filename) = Len(f[2]) + 2 * checks
          /\ checks <= Cardinality(FilesIn(new_path))
    /\ (pc = "xfer" /\ ~overwrite) =>
          checks <= Cardinality(FilesIn(PlannedDir)) + 1

\* a name was found at the third check, after two collisions
C9_Witness ==
    /\ pc = "xfer" /\ ~overwrite
    /\ checks = 3
    /\ Len(Basename(new_path)) = Len(f[2]) + 4

\* C10: planning a dated directory that exists raises nothing, and no step
\* of the run removes or changes a file of the destination whose name differs
\* from the name of the record being transferred.
C10_ExistingDirectories ==
    [][/\ (pc = "mkdir" /\ PlanPath(destination_dir, modification_date) \in dstDirs)
          => pc' # "raised"
       /\ pc \in {"loop", "mkdir", "name", "xfer"} =>
            \A p \in DOMAIN dstFiles :
               Basename(p) # f[2] =>
                  p \in DOMAIN dstFiles' /\ dstFiles'[p] = dstFiles[p]]_vars

\* a run into a dated directory that was there ended; it put a file next to
\* a_1.j, which is as it was
C10_Witness ==
    /\ pc = "done"
    /\ Len(transferred) >= 1
    /\ Front(transferred[1].dst) = MarchDir
    /\ Basename(transferred[1].src) = PhotoName
    /\ Join(MarchDir, Marked(1)) \in DOMAIN dstFiles
    /\ dstFiles[Join(MarchDir, Marked(1))].data = Join(MarchDir, Marked(1))

====
